---- MODULE Spec2Model ----
(***************************************************************************)
(* Model of the PDP-11 instruction-set simulator of src/pdp11.c: the       *)
(* fetch-decode-execute loop of main(), the operand resolver get_operand() *)
(* and the statistics counters.  One loop iteration is split at the calls  *)
(* of get_operand(): fetch (lines 222-243), source resolution, destination *)
(* resolution, and the instruction's own arithmetic / control transfer.    *)
(***************************************************************************)
EXTENDS Integers, Sequences, FiniteSets, TLC

\* ------------------------------------------------------------ bounds ----
\* Largest number of fetches a run of the model performs.
MaxSteps == 9
\* Largest initial loop count of the SOB programs.
MaxK == 4

\* --------------------------------------------------- program constants --
MEM_SIZE == 32 * 1024

MOV == 1
CMP == 2
ADD == 6
SUB == 14
SOB == 63
BR == 4
BNE == 1
BEQ == 12
ASR == 50
ASL == 51

REG == 0
REG_DEF == 1
AUTO_INC == 2
AUTO_INC_DEF == 3
AUTO_DEC == 4
AUTO_DEC_DEF == 5
INDEX == 6
INDEX_DEF == 7

VARIABLES reg, mem, halt, cc_n, cc_z, cc_v, cc_c, result, ind,
          instruction, src, dst,
          instr_exec, instr_fetch, words_read, words_written,
          br_exec, br_taken, bad_pc, pc

vars == <<reg, mem, halt, cc_n, cc_z, cc_v, cc_c, result, ind,
          instruction, src, dst,
          instr_exec, instr_fetch, words_read, words_written,
          br_exec, br_taken, bad_pc, pc>>

\* ------------------------------------------- C integer operations ------
\* x & 0177777 on a two's-complement int
Mask16(x) == x % 65536
\* (x & 0100000) != 0, as 0 or 1
Bit15(x) == (x \div 32768) % 2
\* (x & 0200000) >> 16
Bit16(x) == (x \div 65536) % 2
\* x >> 1 on an int (arithmetic shift)
Half(x) == x \div 2
\* (x << 24) >> 24 on an int whose value is in 0..255
SignExt8(x) == IF x % 256 >= 128 THEN (x % 256) - 256 ELSE x % 256
\* (x << 16) >> 16 on an int
SignExt16(x) == IF x % 65536 >= 32768 THEN (x % 65536) - 65536 ELSE x % 65536

\* ------------------------------------------------------------ memory ----
\* mem is int mem[MEM_SIZE], zero-initialised; the model stores only the
\* words that were loaded or written, every other word reads as 0.
InMem(i) == i >= 0 /\ i < MEM_SIZE

\* Values an out-of-range read of mem[] may yield (undefined behaviour).
UndefVals == {0 - 1, 0, 1}

\* mem[i]; u is what the read yields when i is outside the array
MemRead(i, u) == IF InMem(i) THEN (IF i \in DOMAIN mem THEN mem[i] ELSE 0) ELSE u

\* mem[i] for an index known to be inside the array
Word(i) == MemRead(i, 0)

\* mem[i] = v
MemWrite(i, v) == [j \in (DOMAIN mem) \cup {i} |-> IF j = i THEN v ELSE mem[j]]

\* load_program: the words of the input stream go to mem[0], mem[1], ...
load_program(words) == [i \in 0 .. (Len(words) - 1) |-> words[i + 1]]

\* ----------------------------------------------------------- decoder ----
\* The three switch statements of main(), tried in order: instruction >> 12,
\* then instruction >> 6, then instruction >> 9; "BAD" when none matches.
\* Opcode10 keeping only the top byte
Opcode10_TopByte(w) == w \div 256

\* Line 357: opcode = instruction >> 6
Opcode10(w) == w \div 64

\* instruction is unsigned: the model keeps its 32 bits as an int, and a
\* negative int is an unsigned value of 2^31 or more, whose shifted opcode
\* fields are too large to match any case.
Classify(w) ==
    LET op4 == w \div 4096
        op10 == Opcode10(w)
        op7 == w \div 512
    IN  IF w < 0 THEN "BAD"
        ELSE IF op4 = MOV THEN "MOV"
        ELSE IF op4 = CMP THEN "CMP"
        ELSE IF op4 = ADD THEN "ADD"
        ELSE IF op4 = SUB THEN "SUB"
        ELSE IF op10 = BR THEN "BR"
        ELSE IF op10 = BEQ THEN "BEQ"
        ELSE IF op10 = ASL THEN "ASL"
        ELSE IF op10 = ASR THEN "ASR"
        ELSE IF op7 = SOB THEN "SOB"
        ELSE IF op7 = BNE THEN "BNE"
        ELSE "BAD"

\* position of the loop body after the fetch of the nonzero word w
AfterFetch(w) ==
    LET k == Classify(w)
    IN  IF k \in {"MOV", "CMP", "ADD", "SUB"} THEN "src"
        ELSE IF k \in {"ASL", "ASR"} THEN "dst"
        ELSE IF k = "BAD" THEN "faulted"
        ELSE "exec"

\* -------------------------------------------------- operand resolver ----
\* DeferredInc stepping over two words
DeferredInc_Four(v) == v + 4

\* reg[p->reg] += 2 of line 160
DeferredInc(v) == v + 2

\* ImmFetch charging a fetch for every register
ImmFetch_Always(r) == 1

\* Lines 144-146: AUTO_INC counts an instruction word when the register is the PC
ImmFetch(r) == IF r = 7 THEN 1 ELSE 0

\* get_operand(p) on the current registers and memory.  u1 and u2 are what
\* the first and second memory read yield if their index is outside mem[].
\* The result holds the new register file, p->addr, p->value, the increments
\* of instr_fetch and words_read, the new ind, whether a read was outside
\* mem[] (oob) and whether an assert failed (abort).
get_operand(p, u1, u2) ==
    LET r == p.reg
        same == [reg |-> reg, addr |-> p.addr, value |-> p.value, fetch |-> 0,
                 read |-> 0, ind |-> ind, oob |-> FALSE, abort |-> FALSE]
    IN  CASE p.mode = REG ->
               [same EXCEPT !.value = reg[r], !.addr = 0]
          [] p.mode = REG_DEF ->
               LET a == reg[r]
               IN  [same EXCEPT !.addr = a, !.value = MemRead(Half(a), u1),
                                !.read = 1, !.oob = ~InMem(Half(a))]
          [] p.mode = AUTO_INC ->
               LET f == ImmFetch(r)
                   a == reg[r]
                   v == MemRead(Half(a), u1)
               IN  IF ~(a < 65536)
                   THEN [same EXCEPT !.fetch = f, !.addr = a, !.abort = TRUE]
                   ELSE IF ~(v < 65536)
                   THEN [same EXCEPT !.fetch = f, !.addr = a, !.value = v,
                                     !.oob = ~InMem(Half(a)), !.abort = TRUE]
                   ELSE [same EXCEPT !.fetch = f, !.addr = a, !.value = v,
                                     !.oob = ~InMem(Half(a)),
                                     !.reg = [reg EXCEPT ![r] = Mask16(reg[r] + 2)]]
          [] p.mode = AUTO_INC_DEF ->
               LET a0 == reg[r]
                   a == MemRead(Half(a0), u1)
                   v == MemRead(Half(a), u2)
               IN  [same EXCEPT !.read = 1, !.addr = a, !.value = v,
                                !.oob = ~InMem(Half(a0)) \/ ~InMem(Half(a)),
                                !.reg = [reg EXCEPT ![r] = DeferredInc(reg[r])]]
          [] p.mode = AUTO_DEC ->
               LET a == Mask16(reg[r] - 2)
               IN  [same EXCEPT !.read = 1, !.addr = a,
                                !.value = MemRead(Half(a), u1),
                                !.reg = [reg EXCEPT ![r] = a]]
          [] p.mode = AUTO_DEC_DEF ->
               LET a0 == reg[r] - 2
                   a == MemRead(Half(a0), u1)
                   v == MemRead(Half(a), u2)
               IN  [same EXCEPT !.read = 1, !.addr = a, !.value = v,
                                !.oob = ~InMem(Half(a0)) \/ ~InMem(Half(a)),
                                !.reg = [reg EXCEPT ![r] = a0]]
          [] p.mode = INDEX ->
               LET i == MemRead(Half(reg[7]), u1)
                   a == Mask16(reg[r] + i)
               IN  [same EXCEPT !.fetch = 1, !.read = 3, !.ind = i, !.addr = a,
                                !.value = MemRead(Half(a), u2),
                                !.oob = ~InMem(Half(reg[7])),
                                !.reg = [reg EXCEPT ![7] = Mask16(reg[7] + 2)]]
          [] p.mode = INDEX_DEF ->
               LET i == MemRead(Half(reg[7]), u1)
                   a1 == Mask16(reg[r] + i)
                   a == MemRead(Half(a1), u1)
                   v == MemRead(Half(a), u2)
               IN  [same EXCEPT !.fetch = 1, !.read = 3, !.ind = i, !.addr = a,
                                !.value = v,
                                !.oob = ~InMem(Half(reg[7])) \/ ~InMem(Half(a)),
                                !.reg = [reg EXCEPT ![7] = Mask16(reg[7] + 2)]]

\* ------------------------------------------------------------ actions ---
counters == <<instr_exec, instr_fetch, words_read, words_written, br_exec, br_taken>>
flags == <<cc_n, cc_z, cc_v, cc_c>>

\* CountFetch with the halt word left uncounted
CountFetch_SkipHalt(w, n) == IF w = 0 THEN n ELSE n + 1

\* instr_exec++ of line 223, which precedes the test of line 227
CountFetch(w, n) == n + 1

\* the int printed by line 493 when the PC after the fetch is p
FaultReport(p) == p - 2

\* FetchCommon advancing the PC by one byte
FetchCommon_ByOne(w) ==
    /\ instruction' = w
    /\ instr_exec' = CountFetch(w, instr_exec)
    /\ instr_fetch' = instr_fetch + 1
    /\ reg' = [reg EXCEPT ![7] = Mask16(reg[7] + 1)]
    /\ UNCHANGED <<mem, flags, result, ind, words_read, words_written, br_exec, br_taken>>

\* Lines 222-225: w is the word fetched at the PC; count it, advance the PC.
FetchCommon(w) ==
    /\ instruction' = w
    /\ instr_exec' = CountFetch(w, instr_exec)
    /\ instr_fetch' = instr_fetch + 1
    /\ reg' = [reg EXCEPT ![7] = Mask16(reg[7] + 2)]
    /\ UNCHANGED <<mem, flags, result, ind, words_read, words_written, br_exec, br_taken>>

\* Lines 227-234: the fetched word is 0, the run halts.
FetchHalt ==
    /\ pc = "fetch"
    /\ instr_exec < MaxSteps
    /\ \E u \in UndefVals, c \in BOOLEAN :
         LET oob == ~InMem(Half(reg[7]))
             w == MemRead(Half(reg[7]), u)
         IN  /\ w = 0
             /\ FetchCommon(w)
             /\ halt' = IF oob /\ c THEN halt ELSE 1
             /\ pc' = IF oob /\ c THEN "crashed" ELSE "halted"
             /\ UNCHANGED <<src, dst, bad_pc>>

\* Lines 236-243, 357, 448: a nonzero word of one of the ten instructions;
\* the operand fields are extracted and the instruction is dispatched.
FetchDecode ==
    /\ pc = "fetch"
    /\ instr_exec < MaxSteps
    /\ \E u \in UndefVals, c \in BOOLEAN :
         LET oob == ~InMem(Half(reg[7]))
             w == MemRead(Half(reg[7]), u)
         IN  /\ w # 0
             /\ Classify(w) # "BAD"
             /\ FetchCommon(w)
             /\ src' = [src EXCEPT !.mode = (w \div 512) % 8, !.reg = (w \div 64) % 8]
             /\ dst' = [dst EXCEPT !.mode = (w \div 8) % 8, !.reg = w % 8]
             /\ pc' = IF oob /\ c THEN "crashed" ELSE AfterFetch(w)
             /\ UNCHANGED <<halt, bad_pc>>

\* Lines 236-243, 357, 448, 493-494: a nonzero word that no switch matches;
\* the int reg[7] - 2 is printed (bad_pc) and the process exits.
FetchBad ==
    /\ pc = "fetch"
    /\ instr_exec < MaxSteps
    /\ \E u \in UndefVals, c \in BOOLEAN :
         LET oob == ~InMem(Half(reg[7]))
             w == MemRead(Half(reg[7]), u)
         IN  /\ w # 0
             /\ Classify(w) = "BAD"
             /\ FetchCommon(w)
             /\ src' = [src EXCEPT !.mode = (w \div 512) % 8, !.reg = (w \div 64) % 8]
             /\ dst' = [dst EXCEPT !.mode = (w \div 8) % 8, !.reg = w % 8]
             /\ bad_pc' = IF oob /\ c THEN bad_pc ELSE FaultReport(Mask16(reg[7] + 2))
             /\ pc' = IF oob /\ c THEN "crashed" ELSE "faulted"
             /\ UNCHANGED halt

\* position after a call of get_operand that returned g
AfterOperand(g, c, next) ==
    IF g.abort THEN "aborted" ELSE IF g.oob /\ c THEN "crashed" ELSE next

\* get_operand(&src) of MOV, CMP, ADD, SUB
ResolveSrc ==
    /\ pc = "src"
    /\ \E u1 \in UndefVals, u2 \in UndefVals, c \in BOOLEAN :
         LET g == get_operand(src, u1, u2)
         IN  /\ reg' = g.reg
             /\ src' = [src EXCEPT !.addr = g.addr, !.value = g.value]
             /\ instr_fetch' = instr_fetch + g.fetch
             /\ words_read' = words_read + g.read
             /\ ind' = g.ind
             /\ pc' = AfterOperand(g, c, "dst")
    /\ UNCHANGED <<mem, halt, flags, result, instruction, dst, instr_exec,
                   words_written, br_exec, br_taken, bad_pc>>

\* get_operand(&dst) of MOV, CMP, ADD, SUB, ASL, ASR
ResolveDst ==
    /\ pc = "dst"
    /\ \E u1 \in UndefVals, u2 \in UndefVals, c \in BOOLEAN :
         LET g == get_operand(dst, u1, u2)
         IN  /\ reg' = g.reg
             /\ dst' = [dst EXCEPT !.addr = g.addr, !.value = g.value]
             /\ instr_fetch' = instr_fetch + g.fetch
             /\ words_read' = words_read + g.read
             /\ ind' = g.ind
             /\ pc' = AfterOperand(g, c, "exec")
    /\ UNCHANGED <<mem, halt, flags, result, instruction, src, instr_exec,
                   words_written, br_exec, br_taken, bad_pc>>

\* CmpV with || in place of &&
CmpV_Or(s, d, res) == IF Bit15(s) # Bit15(d) \/ Bit15(s) = Bit15(res) THEN 1 ELSE 0

\* Lines 290-293: overflow flag of CMP
CmpV(s, d, res) == IF Bit15(s) # Bit15(d) /\ Bit15(s) = Bit15(res) THEN 1 ELSE 0

\* AddResult with the operands subtracted
AddResult_Subtract(s, d) == Mask16(s - d)

\* Lines 310-312: result of ADD
AddResult(s, d) == Mask16(s + d)

\* SubV comparing the result's sign with the destination's
SubV_DstSign(s, d, res) == IF Bit15(s) # Bit15(d) /\ Bit15(d) = Bit15(res) THEN 1 ELSE 0

\* Lines 343-346: overflow flag of SUB
SubV(s, d, res) == IF Bit15(s) # Bit15(d) /\ Bit15(s) = Bit15(res) THEN 1 ELSE 0

\* Line 401: result of ASL on the register value v
AslResult(v) == Mask16(2 * v)

\* AsrResult without the sign extension (a logical shift)
AsrResult_Logical(v) == Mask16(Half(Mask16(v)))

\* Lines 426-430: result of ASR on the register value v
AsrResult(v) == Mask16(Half(SignExt16(v)))

\* BneCond with the test inverted
BneCond_Inverted(z) == z # 0

\* Line 485: branch condition of BNE
BneCond(z) == z = 0

\* MovN with the sign test inverted
MovN_Inverted(v) == 1 - Bit15(v)

\* Line 254: N flag of MOV
MovN(v) == Bit15(v)

\* IsMemDst also storing for the deferred-register destination
IsMemDst_Deferred(mode) == mode \in {REG_DEF, AUTO_INC}

\* Line 260: the destination modes for which MOV stores to memory
IsMemDst(mode) == mode = 2

\* What a store outside mem[] may do (undefined behaviour): end the process,
\* leave every modelled object alone, or overwrite one of the registers.
OobStore == {"crash", "none", "reg"}

\* Lines 244-270
ExecMOV ==
    /\ pc = "exec"
    /\ Classify(instruction) = "MOV"
    /\ cc_n' = MovN(src.value)
    /\ cc_z' = (IF src.value = 0 THEN 1 ELSE 0)
    /\ cc_v' = 0
    /\ IF IsMemDst(dst.mode)
       THEN /\ words_written' = words_written + 1
            /\ IF InMem(Half(dst.addr))
               THEN /\ mem' = MemWrite(Half(dst.addr), src.value)
                    /\ reg' = reg
                    /\ pc' = "fetch"
               ELSE \E o \in OobStore, i \in 0 .. 7 :
                      /\ mem' = mem
                      /\ reg' = (IF o = "reg" THEN [reg EXCEPT ![i] = src.value] ELSE reg)
                      /\ pc' = (IF o = "crash" THEN "crashed" ELSE "fetch")
       ELSE /\ reg' = [reg EXCEPT ![dst.reg] = src.value]
            /\ pc' = "fetch"
            /\ UNCHANGED <<mem, words_written>>
    /\ UNCHANGED <<halt, cc_c, result, ind, instruction, src, dst, instr_exec,
                   instr_fetch, words_read, br_exec, br_taken, bad_pc>>

\* Lines 272-297
ExecCMP ==
    /\ pc = "exec"
    /\ Classify(instruction) = "CMP"
    /\ LET diff == src.value - dst.value
           res == Mask16(diff)
       IN  /\ result' = res
           /\ cc_c' = Bit16(diff)
           /\ cc_n' = Bit15(res)
           /\ cc_z' = (IF res = 0 THEN 1 ELSE 0)
           /\ cc_v' = CmpV(src.value, dst.value, res)
    /\ pc' = "fetch"
    /\ UNCHANGED <<reg, mem, halt, ind, instruction, src, dst, counters, bad_pc>>

\* AddCarry also set when nothing was carried out
AddCarry_LessEq(res, sum) == IF res <= sum THEN 1 ELSE 0

\* Line 315: carry of ADD
AddCarry(res, sum) == IF res < sum THEN 1 ELSE 0

\* Lines 299-323
ExecADD ==
    /\ pc = "exec"
    /\ Classify(instruction) = "ADD"
    /\ LET sum == src.value + dst.value
           res == AddResult(src.value, dst.value)
       IN  /\ result' = res
           /\ cc_v' = (IF Bit15(src.value) = Bit15(dst.value) /\ Bit15(src.value) # Bit15(res)
                       THEN 1 ELSE 0)
           /\ cc_c' = AddCarry(res, sum)
           /\ cc_n' = Bit15(res)
           /\ cc_z' = (IF res = 0 THEN 1 ELSE 0)
           /\ reg' = [reg EXCEPT ![dst.reg] = res]
    /\ pc' = "fetch"
    /\ UNCHANGED <<mem, halt, ind, instruction, src, dst, counters, bad_pc>>

\* Lines 325-351
ExecSUB ==
    /\ pc = "exec"
    /\ Classify(instruction) = "SUB"
    /\ LET diff == dst.value - src.value
           res == Mask16(diff)
       IN  /\ result' = res
           /\ cc_c' = Bit16(diff)
           /\ cc_n' = Bit15(res)
           /\ cc_z' = (IF res = 0 THEN 1 ELSE 0)
           /\ cc_v' = SubV(src.value, dst.value, res)
           /\ reg' = [reg EXCEPT ![dst.reg] = res]
    /\ pc' = "fetch"
    /\ UNCHANGED <<mem, halt, ind, instruction, src, dst, counters, bad_pc>>

\* BrExecCount leaving the branch uncounted
BrExecCount_Skip(n) == n

\* Line 360: br_exec++
BrExecCount(n) == n + 1

\* Lines 359-373
ExecBR ==
    /\ pc = "exec"
    /\ Classify(instruction) = "BR"
    /\ br_exec' = BrExecCount(br_exec)
    /\ br_taken' = br_taken + 1
    /\ LET offset == SignExt8(instruction % 256)
       IN  reg' = [reg EXCEPT ![7] = Mask16(reg[7] + 2 * offset)]
    /\ pc' = "fetch"
    /\ UNCHANGED <<mem, halt, flags, result, ind, instruction, src, dst, instr_exec,
                   instr_fetch, words_read, words_written, bad_pc>>

\* Lines 375-391
ExecBEQ ==
    /\ pc = "exec"
    /\ Classify(instruction) = "BEQ"
    /\ br_exec' = br_exec + 1
    /\ LET offset == instruction % 256
           new_addr == reg[7] + 2 * offset
       IN  IF cc_z # 0
           THEN reg' = [reg EXCEPT ![7] = new_addr] /\ br_taken' = br_taken + 1
           ELSE UNCHANGED <<reg, br_taken>>
    /\ pc' = "fetch"
    /\ UNCHANGED <<mem, halt, flags, result, ind, instruction, src, dst, instr_exec,
                   instr_fetch, words_read, words_written, bad_pc>>

\* Lines 393-416
ExecASL ==
    /\ pc = "exec"
    /\ Classify(instruction) = "ASL"
    /\ LET res == AslResult(reg[dst.reg])
           c == Bit15(dst.value)
       IN  /\ result' = res
           /\ cc_n' = Bit15(res)
           /\ cc_z' = (IF res = 0 THEN 1 ELSE 0)
           /\ cc_c' = c
           /\ cc_v' = (IF c # Bit15(res) THEN 1 ELSE 0)
           /\ reg' = [reg EXCEPT ![dst.reg] = res]
    /\ pc' = "fetch"
    /\ UNCHANGED <<mem, halt, ind, instruction, src, dst, counters, bad_pc>>

\* Lines 418-445
ExecASR ==
    /\ pc = "exec"
    /\ Classify(instruction) = "ASR"
    /\ LET res == AsrResult(reg[dst.reg])
           c == dst.value % 2
       IN  /\ result' = res
           /\ cc_n' = Bit15(res)
           /\ cc_z' = (IF res = 0 THEN 1 ELSE 0)
           /\ cc_c' = c
           /\ cc_v' = (IF c # Bit15(res) THEN 1 ELSE 0)
           /\ reg' = [reg EXCEPT ![dst.reg] = res]
    /\ pc' = "fetch"
    /\ UNCHANGED <<mem, halt, ind, instruction, src, dst, counters, bad_pc>>

\* SobDecrement counting down by two
SobDecrement_Two(v) == v - 2

\* reg[src.reg]-- of line 459
SobDecrement(v) == v - 1

\* Lines 450-471; get_operand(&src) runs with src.mode forced to 0
ExecSOB ==
    /\ pc = "exec"
    /\ Classify(instruction) = "SOB"
    /\ br_exec' = br_exec + 1
    /\ src' = [src EXCEPT !.mode = 0, !.value = reg[src.reg], !.addr = 0]
    /\ LET offset == SignExt8(instruction % 64)
           dec == [reg EXCEPT ![src.reg] = SobDecrement(reg[src.reg])]
       IN  IF dec[src.reg] # 0
           THEN /\ br_taken' = br_taken + 1
                /\ reg' = [dec EXCEPT ![7] = Mask16(dec[7] - 2 * offset)]
           ELSE /\ br_taken' = br_taken
                /\ reg' = dec
    /\ pc' = "fetch"
    /\ UNCHANGED <<mem, halt, flags, result, ind, instruction, dst, instr_exec,
                   instr_fetch, words_read, words_written, bad_pc>>

\* Lines 473-490
ExecBNE ==
    /\ pc = "exec"
    /\ Classify(instruction) = "BNE"
    /\ br_exec' = br_exec + 1
    /\ LET offset == SignExt8(instruction % 256)
           new_addr == reg[7] + 2 * offset
       IN  IF BneCond(cc_z)
           THEN reg' = [reg EXCEPT ![7] = new_addr] /\ br_taken' = br_taken + 1
           ELSE UNCHANGED <<reg, br_taken>>
    /\ pc' = "fetch"
    /\ UNCHANGED <<mem, halt, flags, result, ind, instruction, src, dst, instr_exec,
                   instr_fetch, words_read, words_written, bad_pc>>

\* ----------------------------------------------------------- programs ---
\* Instruction words, packed as the decoder unpacks them (lines 236-242).
Op2(op, sm, sr, dm, dr) == op * 4096 + sm * 512 + sr * 64 + dm * 8 + dr
Op1(op, dm, dr) == op * 64 + dm * 8 + dr
Branch(op, off) == op * 64 + off
BranchNE(off) == BNE * 512 + off
Sob(r, off) == SOB * 512 + r * 64 + off
\* MOV #v,Rr is MovImm(r) followed by the word v
MovImm(r) == Op2(MOV, AUTO_INC, 7, REG, r)

\* 16-bit values the programs are run with
Vals == {0, 1, 2, 16384, 32767, 32768, 49152, 65535}
\* words that match no instruction
BadWords == {1, 63, 255, 12288, 65535}

EmptyProg == << >>
MovAddProg == <<MovImm(0), 5, Op2(ADD, AUTO_INC, 7, REG, 0), 3, 0>>
SobProg(n, k) == <<MovImm(n), k, Sob(n, 1), 0>>
AddSubProg(a, b) == <<MovImm(0), a, MovImm(1), b, Op2(ADD, REG, 1, REG, 0),
                      Op2(SUB, REG, 1, REG, 0), 0>>
CmpSameProg(a, b) == <<MovImm(0), a, MovImm(1), b, Op2(ADD, REG, 1, REG, 0),
                       Op2(CMP, REG, 0, REG, 0), 0>>
CmpTwoProg(a, b) == <<MovImm(0), a, MovImm(3), b, Op2(CMP, REG, 0, REG, 3), 0>>
ShiftProg(a) == <<MovImm(0), a, Op1(ASL, REG, 0), Op1(ASR, REG, 0), 0>>
DeferredProg(r, A, d) == <<MovImm(r), A, Op2(CMP, AUTO_INC_DEF, r, REG, 2), 0>> \o d
DeferredDstProg(r, A, d) == <<MovImm(r), A, Op2(CMP, REG, 2, AUTO_INC_DEF, r), 0>> \o d
BrOnlyProg == <<Branch(BR, 1), 0, Branch(BR, 0), 0>>
BranchProg(a) == <<MovImm(0), a, Branch(BEQ, 1), Branch(BR, 1), BranchNE(1),
                   BranchNE(1), Branch(BEQ, 0), 0>>
FaultProg(w, pre) == pre \o <<w>>
WrapFaultProg(w) == <<MovImm(1), 65534, Op2(MOV, AUTO_INC, 7, AUTO_INC, 1), w, Sob(1, 6)>>
\* seq extended with zero words to n words
Pad(seq, n) == seq \o [i \in 1 .. (n - Len(seq)) |-> 0]
\* the displacement word that follows an instruction for an indexed operand
IndexWord(mode, x) == IF mode \in {INDEX, INDEX_DEF} THEN <<x>> ELSE << >>
\* data words at byte addresses 16 .. 28
ModeData == <<22, 32768, 26, 65535, 24, 20, 28>>
\* MOV #20,R1; MOV #24,R2; op sm(R1),dm(R2); HALT, with data
ModeProg(op, sm, dm) ==
    Pad(<<MovImm(1), 20, MovImm(2), 24, Op2(op, sm, 1, dm, 2)>>
        \o IndexWord(sm, 4) \o IndexWord(dm, 2), 8) \o ModeData
\* MOV #A,R1; op dm(R1); HALT, with data (op is ASL or ASR)
ShiftModeProg(op, dm, A) ==
    Pad(<<MovImm(1), A, Op1(op, dm, 1)>> \o IndexWord(dm, 2), 8) \o ModeData
\* CMP sets the flags, then MOV and every branch run on them
FlagProg(a, b) == <<MovImm(0), a, MovImm(1), b, Op2(CMP, REG, 0, REG, 1),
                    Op2(MOV, REG, 1, REG, 2), Branch(BR, 0), Branch(BEQ, 0),
                    BranchNE(0), Sob(2, 0), 0>>
\* MOV #5,R0 followed by the branch word of opcode byte 1 and offset byte k
BrByteProg(k) == <<MovImm(0), 5, 256 + (k % 256), 0, 0>>
\* programs that write register 7
PcMovProg(v) == <<MovImm(7), v, 0, 0, 0>>
PcAddProg(v) == <<Op2(ADD, AUTO_INC, 7, REG, 7), v, 0, 0, 0, 0, 0>>
PcSobProg == <<Sob(7, 0), 0>>
StrayProg == <<Sob(1, 0), Op2(MOV, AUTO_INC, 7, AUTO_INC, 1), 5, 0>>

Programs ==
    {EmptyProg, MovAddProg, StrayProg, BrOnlyProg, PcSobProg}
    \cup {PcMovProg(v) : v \in {1, 6, 7}}
    \cup {FlagProg(a, b) : a \in {0, 1, 32767, 65535}, b \in {0, 1, 32768, 65535}}
    \cup {ModeProg(CMP, sm, dm) : sm \in 0 .. 7, dm \in 0 .. 7}
    \cup {ModeProg(op, sm, dm) : op \in {MOV, ADD, SUB}, sm \in {REG, AUTO_INC_DEF}, dm \in 0 .. 7}
    \cup {ShiftModeProg(op, dm, A) : op \in {ASL, ASR}, dm \in 0 .. 7, A \in {18, 20}}
    \cup {BrByteProg(k) : k \in {0 - 128, 0 - 3, 0 - 1, 0, 1, 63, 64, 127}}
    \cup {PcAddProg(v) : v \in {2, 3}}
    \cup {DeferredDstProg(3, A, <<12, 10, 83>>) : A \in {8, 10}}
    \cup {SobProg(n, k) : n \in 0 .. 6, k \in 0 .. MaxK}
    \cup {AddSubProg(a, b) : a \in Vals, b \in Vals}
    \cup {CmpSameProg(a, b) : a \in Vals, b \in Vals}
    \cup {CmpTwoProg(a, b) : a \in Vals, b \in {0, 32768, 65535}}
    \cup {ShiftProg(a) : a \in Vals}
    \cup {DeferredProg(r, A, <<d1, d2, 83>>) :
            r \in {1, 5}, A \in {8, 10, 65534}, d1 \in {8, 10, 13}, d2 \in {0, 12, 65535}}
    \cup {BranchProg(a) : a \in {0, 1, 32768}}
    \cup {FaultProg(w, pre) : w \in BadWords, pre \in {<< >>, <<MovImm(0), 5>>}}
    \cup {WrapFaultProg(w) : w \in BadWords}

\* ------------------------------------------------------ specification ---
\* One-word programs: every 16-bit word as the first instruction, and the
\* words of the BNE range also after CMP R0,R0, which sets Z
DecodePrograms ==
    {<<w>> : w \in 0 .. 65535}
    \cup {<<Op2(CMP, REG, 0, REG, 0), w>> : w \in 512 .. 1023}

\* State after load_program(progs) and the initialisers of lines 60-80
Start(progs) ==
    /\ mem \in {load_program(p) : p \in progs}
    /\ reg = [i \in 0 .. 7 |-> 0]
    /\ halt = 0
    /\ cc_n = 0 /\ cc_z = 0 /\ cc_v = 0 /\ cc_c = 0
    /\ result = 0 /\ ind = 0
    /\ instruction = 0
    /\ src = [mode |-> 0, reg |-> 0, addr |-> 0, value |-> 0]
    /\ dst = [mode |-> 0, reg |-> 0, addr |-> 0, value |-> 0]
    /\ instr_exec = 0 /\ instr_fetch = 0 /\ words_read = 0 /\ words_written = 0
    /\ br_exec = 0 /\ br_taken = 0
    /\ bad_pc = 0 - 1
    /\ pc = "fetch"

Init == Start(Programs)

DecodeInit == Start(DecodePrograms)

Next ==
    \/ FetchHalt \/ FetchDecode \/ FetchBad
    \/ ResolveSrc \/ ResolveDst
    \/ ExecMOV \/ ExecCMP \/ ExecADD \/ ExecSUB
    \/ ExecBR \/ ExecBEQ \/ ExecASL \/ ExecASR
    \/ ExecSOB \/ ExecBNE

Spec == Init /\ [][Next]_vars

\* The loop of main() runs without pause until halt, exit or abort: a step
\* that is possible is eventually taken.
FairSpec == Spec /\ WF_vars(Next)

\* The same loop started on the one-word programs
DecodeSpec == DecodeInit /\ [][Next]_vars

\* ============================================================== claims ==
Loaded(p) == mem = load_program(p)

\* C1 (as stated): the fetch of the halt word leaves instructions-executed
\* alone, so the empty program halts with 0 instructions executed and
\* MOV #5,R0; ADD #3,R0; HALT halts with 2.
C1_HaltNotCounted ==
    [][(pc = "fetch" /\ pc' = "halted") =>
          /\ instr_exec' = instr_exec
          /\ (Loaded(EmptyProg) => instr_exec' = 0)
          /\ (Loaded(MovAddProg) => instr_exec' = 2)]_vars

\* C1 (amended): every fetch, the fetch of the halt word included, adds
\* exactly 1 to instructions-executed and no other step changes it, so at
\* Halted the counter is one more than the number of non-halt instructions:
\* 1 for the empty program and 3 for MOV #5,R0; ADD #3,R0; HALT.
C1_HaltCounted ==
    [][/\ (pc = "fetch" => instr_exec' = instr_exec + 1)
       /\ (pc # "fetch" => instr_exec' = instr_exec)
       /\ (pc' = "halted" /\ Loaded(EmptyProg) => instr_exec' = 1)
       /\ (pc' = "halted" /\ Loaded(MovAddProg) => instr_exec' = 3)]_vars

C1_Witness == pc = "halted" /\ halt = 1 /\ Loaded(MovAddProg) /\ instr_exec = 3

\* C2: MOV #5,R0; ADD #3,R0; HALT run from the initial state halts with
\* R0 = 8 and both branch counters 0.
C2_MovAddResult ==
    (pc = "halted" /\ Loaded(MovAddProg)) =>
        (reg[0] = 8 /\ br_exec = 0 /\ br_taken = 0)

C2_Witness == pc = "halted" /\ Loaded(MovAddProg) /\ reg[0] = 8 /\ reg[7] = 10

\* C3: a step adds 1 to branches-executed exactly when it executes BR, BEQ,
\* BNE or SOB, and 1 to branches-taken exactly when that branch's condition
\* holds; a program with no BEQ, BNE or SOB word has taken = executed.
C3_IsBranchStep == pc = "exec" /\ Classify(instruction) \in {"BR", "BEQ", "BNE", "SOB"}

C3_CondHolds ==
    \/ Classify(instruction) = "BR"
    \/ Classify(instruction) = "BEQ" /\ cc_z = 1
    \/ Classify(instruction) = "BNE" /\ cc_z = 0
    \/ Classify(instruction) = "SOB" /\ reg[(instruction \div 64) % 8] - 1 # 0

C3_BranchCounters ==
    /\ [][/\ (C3_IsBranchStep =>
                /\ br_exec' = br_exec + 1
                /\ br_taken' = br_taken + (IF C3_CondHolds THEN 1 ELSE 0))
          /\ (~C3_IsBranchStep => br_exec' = br_exec /\ br_taken' = br_taken)]_vars
    /\ []((\A i \in DOMAIN mem : Classify(mem[i]) \notin {"BEQ", "BNE", "SOB"})
             => br_taken = br_exec)

C3_Witness ==
    /\ pc = "fetch" /\ Classify(instruction) = "BNE" /\ cc_z = 1
    /\ br_exec = 3 /\ br_taken = 1

\* C4: MOV #k,Rn; SOB Rn,<itself>; HALT with n # 7 and k >= 1 always comes
\* to Halted, having executed the SOB k times and taken it k-1 times, with
\* Rn = 0 and the halt fetched from the word after the SOB.
C4_SobLoop ==
    /\ [](\A n \in 0 .. 6, k \in 1 .. MaxK :
             pc = "halted" /\ Loaded(SobProg(n, k)) =>
                 br_exec = k /\ br_taken = k - 1 /\ reg[n] = 0 /\ reg[7] = 8)
    /\ ((\E n \in 0 .. 6, k \in 1 .. MaxK : Loaded(SobProg(n, k))) ~> pc = "halted")

C4_Witness ==
    /\ pc = "halted" /\ Loaded(SobProg(3, 2))
    /\ br_exec = 2 /\ br_taken = 1 /\ reg[3] = 0

\* sign bit of a 16-bit value, as 0 or 1
Sign(x) == IF x >= 32768 THEN 1 ELSE 0

\* C5: MOV #a,R0; MOV #b,R1; ADD R1,R0; SUB R1,R0; HALT ends with R0 = a
\* and the flags of the subtraction s - b, s = (a + b) mod 65536:
\* N = bit 15 of a, Z = (a = 0), C = (s < b), V = (sign b # sign s and
\* sign a = sign b).
C5_AddSubRoundTrip ==
    \A a \in Vals, b \in Vals :
        (pc = "halted" /\ Loaded(AddSubProg(a, b))) =>
            LET s == (a + b) % 65536
            IN  /\ reg[0] = a
                /\ cc_n = Sign(a)
                /\ cc_z = (IF a = 0 THEN 1 ELSE 0)
                /\ cc_c = (IF s < b THEN 1 ELSE 0)
                /\ cc_v = (IF Sign(b) # Sign(s) /\ Sign(a) = Sign(b) THEN 1 ELSE 0)

C5_Witness ==
    /\ pc = "halted" /\ Loaded(AddSubProg(16384, 16384))
    /\ reg[0] = 16384 /\ cc_v = 1 /\ cc_c = 0

\* C6: CMP with register-mode operands of equal value sets Z = 1, N = 0,
\* V = 0, C = 0 whatever the flags were, and neither its operand resolutions
\* nor its execution change a register or memory.
C6_IsRegCmp == Classify(instruction) = "CMP" /\ src.mode = REG /\ dst.mode = REG

C6_CmpEqual ==
    [][/\ (pc = "exec" /\ C6_IsRegCmp /\ src.value = dst.value =>
             /\ cc_z' = 1 /\ cc_n' = 0 /\ cc_v' = 0 /\ cc_c' = 0
             /\ reg' = reg /\ mem' = mem)
       /\ (pc \in {"src", "dst"} /\ C6_IsRegCmp => reg' = reg /\ mem' = mem)]_vars

C6_Witness ==
    /\ pc = "fetch" /\ C6_IsRegCmp /\ src.value = 32768 /\ dst.value = 32768
    /\ src.reg # dst.reg /\ cc_z = 1 /\ cc_n = 0 /\ cc_v = 0 /\ cc_c = 0

\* C7 (as stated): MOV #a,R0; ASL R0; ASR R0; HALT never ends with R0 = a
\* when bit 15 of a is set.
C7_Bit15NeverRestored ==
    \A a \in Vals :
        (pc = "halted" /\ Loaded(ShiftProg(a)) /\ a >= 32768) => reg[0] # a

\* C7 (amended): ASL then ASR restores a exactly when bits 15 and 14 of a
\* are equal.
C7_ShiftRoundTrip ==
    \A a \in Vals :
        (pc = "halted" /\ Loaded(ShiftProg(a))) =>
            (reg[0] = a <=> (a \div 16384) % 4 \in {0, 3})

C7_Witness == pc = "halted" /\ Loaded(ShiftProg(65535)) /\ reg[0] = 65535

\* C8: an AutoIncrementDeferred resolution on register r # 7 holding the
\* byte address A, with the pointer P in memory word A/2, yields address P
\* and the value of memory word P/2, makes r hold A + 2 and changes no other
\* register and no memory word.
C8_Deferred(p, q) ==
    LET A == reg[p.reg]
        P == Word(A \div 2)
    IN  (p.mode = AUTO_INC_DEF /\ p.reg # 7 /\ A \in 0 .. 65535 /\ P \in 0 .. 65535) =>
            /\ q.addr = P
            /\ q.value = Word(P \div 2)
            /\ reg' = [reg EXCEPT ![p.reg] = A + 2]
            /\ mem' = mem

C8_AutoIncDeferred ==
    [][/\ (pc = "src" => C8_Deferred(src, src'))
       /\ (pc = "dst" => C8_Deferred(dst, dst'))]_vars

C8_Witness ==
    /\ pc = "dst" /\ src.mode = AUTO_INC_DEF /\ src.reg = 5
    /\ reg[5] = 10 /\ src.addr = 13 /\ src.value = 83

\* C9: a fetched nonzero word of no instruction family ends the run in
\* Faulted, where nothing more is executed, and the address reported is the
\* byte address the word was fetched from, for every fetch address
\* 0 .. 0177776.
C9_FaultAddress ==
    [][/\ (pc = "fetch" /\ pc' = "faulted" /\ reg[7] \in 0 .. 65534 => bad_pc' = reg[7])
       /\ (pc = "faulted" => pc' = "faulted" /\ instr_exec' = instr_exec)]_vars

\* C10: every register and every memory word holds a value in 0 .. 65535
\* in every reachable state.
C10_SixteenBit ==
    /\ \A i \in 0 .. 7 : reg[i] \in 0 .. 65535
    /\ \A j \in DOMAIN mem : mem[j] \in 0 .. 65535

\* C11 (as stated): the PC is even at the start of every fetch and in
\* Halted.
C11_PcEven == pc \in {"fetch", "halted"} => reg[7] % 2 = 0

\* an instruction's own write to register 7: the register write of MOV, ADD,
\* SUB, ASL, ASR with destination register 7, the decrement of SOB on
\* register 7, or a MOV store outside mem[]
C11_WritesPc ==
    /\ pc = "exec"
    /\ \/ Classify(instruction) \in {"ADD", "SUB", "ASL", "ASR"} /\ dst.reg = 7
       \/ Classify(instruction) = "MOV" /\ dst.mode # AUTO_INC /\ dst.reg = 7
       \/ Classify(instruction) = "MOV" /\ dst.mode = AUTO_INC /\ ~InMem(Half(dst.addr))
       \/ Classify(instruction) = "SOB" /\ (instruction \div 64) % 8 = 7

\* C11 (amended): the fetch, every operand resolution, every branch and
\* every instruction that does not write register 7 itself keep an even PC
\* even.
C11_PcParity == [][(reg[7] % 2 = 0 /\ ~C11_WritesPc) => reg'[7] % 2 = 0]_vars

C11_Witness ==
    /\ pc = "halted" /\ Loaded(BranchProg(0))
    /\ br_taken = 2 /\ reg[7] = 16

\* C12: every word 000400 + (k mod 256), k in -128 .. 127, fetched at an
\* even PC is executed as BR and sets the PC to (PC after the fetch + 2k)
\* mod 65536.
C12_IsBrWord(w) == w \in 256 .. 511

C12_Offset(w) == IF w % 256 >= 128 THEN (w % 256) - 256 ELSE w % 256

C12_BrOffset ==
    [][/\ (pc = "fetch" /\ reg[7] \in 0 .. 65534 /\ reg[7] % 2 = 0
             /\ C12_IsBrWord(Word(reg[7] \div 2))
           => pc' = "exec" /\ Classify(instruction') = "BR")
       /\ (pc = "exec" /\ C12_IsBrWord(instruction)
           => reg'[7] = (reg[7] + 2 * C12_Offset(instruction)) % 65536)]_vars

\* C13: one operand resolution adds to (instruction-words-fetched,
\* data-words-read): Register (0,0); RegisterDeferred (0,1); AutoIncrement
\* (1,0) on the PC and (0,0) otherwise; AutoIncrementDeferred, AutoDecrement,
\* AutoDecrementDeferred (0,1); Index, IndexDeferred (1,3); and it changes no
\* other counter, no flag and no memory word.
C13_Charge(p) ==
    CASE p.mode = 0 -> <<0, 0>>
      [] p.mode = 1 -> <<0, 1>>
      [] p.mode = 2 -> IF p.reg = 7 THEN <<1, 0>> ELSE <<0, 0>>
      [] p.mode \in {3, 4, 5} -> <<0, 1>>
      [] p.mode \in {6, 7} -> <<1, 3>>

C13_Resolves(p) ==
    /\ instr_fetch' = instr_fetch + C13_Charge(p)[1]
    /\ words_read' = words_read + C13_Charge(p)[2]
    /\ UNCHANGED <<instr_exec, words_written, br_exec, br_taken, flags, mem>>

C13_ResolverCounters ==
    [][/\ (pc = "src" => C13_Resolves(src))
       /\ (pc = "dst" => C13_Resolves(dst))]_vars

C13_Witness ==
    /\ pc = "exec" /\ src.mode = INDEX /\ dst.mode = AUTO_INC /\ dst.reg = 2
    /\ instr_fetch = 6 /\ words_read = 3

\* C14: memory changes only in the execution of a MOV whose destination mode
\* is AutoIncrement: that step stores the source value in the word at the
\* destination register's pre-increment address (a byte address of memory)
\* and adds exactly 1 to data-words-written; every other step leaves memory
\* and data-words-written unchanged.
C14_IsStore == pc = "exec" /\ Classify(instruction) = "MOV" /\ dst.mode = AUTO_INC

C14_StoresAt(i, v) ==
    /\ DOMAIN mem' = DOMAIN mem \cup {i}
    /\ mem'[i] = v
    /\ \A j \in DOMAIN mem \ {i} : mem'[j] = mem[j]

C14_MemoryWrites ==
    [][/\ (pc = "dst" /\ Classify(instruction) = "MOV" /\ dst.mode = AUTO_INC
             /\ reg[dst.reg] \in 0 .. 65535
           => dst'.addr = reg[dst.reg])
       /\ (C14_IsStore /\ dst.addr \in 0 .. 65535
           => C14_StoresAt(dst.addr \div 2, src.value)
              /\ words_written' = words_written + 1)
       /\ (~C14_IsStore => mem' = mem /\ words_written' = words_written)]_vars

C14_Witness ==
    /\ pc = "fetch"
    /\ Classify(instruction) = "MOV" /\ dst.mode = AUTO_INC /\ dst.reg = 2
    /\ dst.addr = 24 /\ src.value = 20 /\ 12 \in DOMAIN mem /\ mem[12] = 20
    /\ words_written = 1 /\ reg[2] = 26

\* C15: the execution of BR, BEQ, BNE, SOB and the fetch of the halt word
\* leave N, Z, V, C unchanged; MOV leaves C unchanged and sets N = bit 15 of
\* the source value, Z = (source value = 0), V = 0.
C15_FlagFrame ==
    [][/\ (pc = "exec" /\ Classify(instruction) \in {"BR", "BEQ", "BNE", "SOB"}
           => UNCHANGED <<cc_n, cc_z, cc_v, cc_c>>)
       /\ (pc = "fetch" /\ pc' = "halted" => UNCHANGED <<cc_n, cc_z, cc_v, cc_c>>)
       /\ (pc = "exec" /\ Classify(instruction) = "MOV"
           => /\ cc_c' = cc_c
              /\ cc_n' = (IF src.value % 65536 >= 32768 THEN 1 ELSE 0)
              /\ cc_z' = (IF src.value = 0 THEN 1 ELSE 0)
              /\ cc_v' = 0)]_vars

C15_Witness ==
    /\ pc = "halted" /\ Loaded(FlagProg(32767, 65535))
    /\ cc_c = 1 /\ cc_n = 1 /\ cc_z = 0 /\ cc_v = 0 /\ br_exec = 4

\* Value of a 16-bit pattern read as a signed number
C16_Signed(x) == IF x >= 32768 THEN x - 65536 ELSE x

\* C16: for 16-bit source a and destination b, ADD writes (a + b) mod 65536
\* to the destination register, C = 1 iff a + b >= 65536, V = 1 iff a and b
\* have the same sign bit and the result's differs, which is iff the signed
\* sum is outside -32768..32767, N = bit 15 of the result, Z = 1 iff it is 0.
C16_AddFlags ==
    [][pc = "exec" /\ Classify(instruction) = "ADD"
       /\ src.value \in 0 .. 65535 /\ dst.value \in 0 .. 65535
       => LET a == src.value
              b == dst.value
              r == (a + b) % 65536
              s == C16_Signed(a) + C16_Signed(b)
          IN  /\ reg'[dst.reg] = r
              /\ cc_c' = 1 <=> a + b >= 65536
              /\ cc_c' \in {0, 1} /\ cc_v' \in {0, 1}
              /\ cc_v' = 1 <=> (a \div 32768 = b \div 32768 /\ r \div 32768 # a \div 32768)
              /\ cc_v' = 1 <=> (s < -32768 \/ s > 32767)
              /\ cc_n' = r \div 32768
              /\ cc_z' = 1 <=> r = 0
              /\ cc_z' \in {0, 1}]_vars

C16_Witness ==
    /\ pc = "src" /\ Loaded(AddSubProg(32768, 32768)) /\ Classify(instruction) = "SUB"
    /\ reg[0] = 0 /\ reg[1] = 32768 /\ cc_c = 1 /\ cc_v = 1 /\ cc_n = 0 /\ cc_z = 1

\* C17: for ASL with any destination addressing mode there is one pre-shift
\* destination value v (the operand value or the register content) such that
\* the destination register ends as (2*v) mod 65536, C = bit 15 of v,
\* N = bit 15 of the result, Z = 1 iff the result is 0, V = C xor N.
C17_AslOneValue ==
    [][pc = "exec" /\ Classify(instruction) = "ASL"
       /\ dst.value \in 0 .. 65535 /\ reg[dst.reg] \in 0 .. 65535
       => \E v \in {dst.value, reg[dst.reg]} :
             LET r == (2 * v) % 65536
             IN  /\ reg'[dst.reg] = r
                 /\ cc_c' = v \div 32768
                 /\ cc_n' = r \div 32768
                 /\ cc_z' = 1 <=> r = 0
                 /\ cc_v' = (cc_c' + cc_n') % 2]_vars

\* Opcode patterns in the order the loop tries them: field divisor and value
C18_Patterns ==
    <<[f |-> "MOV", d |-> 4096, v |-> MOV], [f |-> "CMP", d |-> 4096, v |-> CMP],
      [f |-> "ADD", d |-> 4096, v |-> ADD], [f |-> "SUB", d |-> 4096, v |-> SUB],
      [f |-> "BR", d |-> 64, v |-> BR], [f |-> "BEQ", d |-> 64, v |-> BEQ],
      [f |-> "ASL", d |-> 64, v |-> ASL], [f |-> "ASR", d |-> 64, v |-> ASR],
      [f |-> "SOB", d |-> 512, v |-> SOB], [f |-> "BNE", d |-> 512, v |-> BNE]>>

\* positions of the patterns that the word w matches
C18_Matching(w) == {i \in 1 .. 10 : w \div C18_Patterns[i].d = C18_Patterns[i].v}

\* family of w by its octal range
C18_Family(w) ==
    IF w \in 4096 .. 8191 THEN "MOV"
    ELSE IF w \in 8192 .. 12287 THEN "CMP"
    ELSE IF w \in 24576 .. 28671 THEN "ADD"
    ELSE IF w \in 57344 .. 61439 THEN "SUB"
    ELSE IF w \in 256 .. 319 THEN "BR"
    ELSE IF w \in 768 .. 831 THEN "BEQ"
    ELSE IF w \in 3264 .. 3327 THEN "ASL"
    ELSE IF w \in 3200 .. 3263 THEN "ASR"
    ELSE IF w \in 32256 .. 32767 THEN "SOB"
    ELSE IF w \in 512 .. 1023 THEN "BNE"
    ELSE "BAD"

\* position of the loop body at which family f is executed
C18_Stage(f) ==
    IF f \in {"MOV", "CMP", "ADD", "SUB"} THEN "src"
    ELSE IF f \in {"ASL", "ASR"} THEN "dst"
    ELSE IF f = "BAD" THEN "faulted"
    ELSE "exec"

\* C18: the family of a fetched nonzero 16-bit word depends on the word alone
\* and is the first pattern it matches (top 4 bits, then top 10, then top 7),
\* or illegal when it matches none; only 001400..001477 match two patterns
\* (BEQ and BNE), and they are executed as BEQ: branch iff Z is set.
C18_FirstMatch ==
    [][/\ (pc = "fetch" /\ instruction' \in 1 .. 65535 /\ pc' # "crashed"
           => LET w == instruction'
                  m == C18_Matching(w)
              IN  /\ Cardinality(m) <= 2
                  /\ Cardinality(m) = 2 <=> w \in 768 .. 831
                  /\ w \in 768 .. 831 => m = {6, 10}
                  /\ m = {} => Classify(w) = "BAD" /\ pc' = "faulted"
                  /\ m # {} => \E i \in m :
                        /\ \A j \in m : i <= j
                        /\ Classify(w) = C18_Patterns[i].f
                  /\ Classify(w) = C18_Family(w)
                  /\ pc' = C18_Stage(C18_Family(w)))
       /\ (pc = "exec" /\ instruction \in 768 .. 831
           => /\ br_exec' = br_exec + 1
              /\ cc_z = 0 => reg' = reg /\ br_taken' = br_taken
              /\ cc_z # 0 => /\ br_taken' = br_taken + 1
                             /\ reg'[7] = reg[7] + 2 * (instruction % 256))]_vars

C18_Witness ==
    /\ pc = "fetch" /\ instruction = 769 /\ cc_z = 1
    /\ br_exec = 1 /\ br_taken = 1 /\ reg[7] = 6

\* C19: in every reachable state 0 <= branches-taken <= branches-executed
\* <= instructions-executed <= instruction-words-fetched.
C19_CounterOrder ==
    /\ 0 <= br_taken
    /\ br_taken <= br_exec
    /\ br_exec <= instr_exec
    /\ instr_exec <= instr_fetch

C19_Witness ==
    /\ pc = "halted" /\ br_taken = 3 /\ br_exec = 4
    /\ instr_exec = 9 /\ instr_fetch = 11

\* C20: for 16-bit source a and destination b, after CMP V = 1 exactly when
\* a - b, with both taken as signed 16-bit numbers, is outside -32768..32767,
\* and C = 1 exactly when a < b as unsigned numbers.
C20_CmpOverflow ==
    [][pc = "exec" /\ Classify(instruction) = "CMP"
       /\ src.value \in 0 .. 65535 /\ dst.value \in 0 .. 65535
       => LET a == src.value
              b == dst.value
              d == C16_Signed(a) - C16_Signed(b)
          IN  /\ cc_v' = 1 <=> (d < -32768 \/ d > 32767)
              /\ cc_c' = 1 <=> a < b]_vars

====
